---- MODULE Spec2Model ----
(***************************************************************************)
(* The interaction controller of the terminal dashboard (src/tui.go): the  *)
(* bubbletea model, its Update transition function, the commands it        *)
(* returns and the completion messages those commands produce.             *)
(*                                                                         *)
(* One step of the model is one call of model.Update: either a key press   *)
(* or a resize (Key, Resize), or the completion message of one command     *)
(* that is in flight (Complete...).  bubbletea runs every returned tea.Cmd *)
(* in its own goroutine and feeds the resulting message back to Update, so *)
(* completions interleave freely with input.                               *)
(***************************************************************************)
EXTENDS Integers, Sequences, FiniteSets, Bags, TLC

----------------------------------------------------------------------------
(* Bounds of the model. *)

\* commands that may be in flight at once
MaxInFlight == 2
\* commands the user may request during a run (each can have a follow-up)
MaxRequests == 2
\* deployments the cluster may hold when ListWorkloads runs
MaxDeployments == 1
\* images the registry may hold when RefreshImages runs
MaxImages == 2
\* length of the strings truncateString is applied to
MaxStringLen == 4
\* widest truncation width truncateString is applied with
MaxWidth == 6
\* length of the generated image references names are computed from
MaxNameLen == 3

----------------------------------------------------------------------------
(* Strings.  Go strings are modelled by TLA+ strings; a character is a     *)
(* string of length one.                                                   *)

UpperLetters == "ABCDEFGHIJKLMNOPQRSTUVWXYZ"
LowerLetters == "abcdefghijklmnopqrstuvwxyz"

CharAt(s, i) == SubSeq(s, i, i)

IsLowerLetter(c) == \E i \in 1..26 : CharAt(LowerLetters, i) = c

ToLowerChar(c) ==
    IF \E i \in 1..26 : CharAt(UpperLetters, i) = c
    THEN CharAt(LowerLetters, CHOOSE i \in 1..26 : CharAt(UpperLetters, i) = c)
    ELSE c

RECURSIVE ToLower(_)
ToLower(s) ==
    IF Len(s) = 0 THEN ""
    ELSE ToLowerChar(CharAt(s, 1)) \o ToLower(SubSeq(s, 2, Len(s)))

\* strings.ReplaceAll(s, old, new) for a one-character old
RECURSIVE ReplaceAll(_, _, _)
ReplaceAll(s, old, new) ==
    IF Len(s) = 0 THEN ""
    ELSE (IF CharAt(s, 1) = old THEN new ELSE CharAt(s, 1))
         \o ReplaceAll(SubSeq(s, 2, Len(s)), old, new)

RECURSIVE TrimLeft(_, _)
TrimLeft(s, c) ==
    IF Len(s) > 0 /\ CharAt(s, 1) = c THEN TrimLeft(SubSeq(s, 2, Len(s)), c) ELSE s

RECURSIVE TrimRight(_, _)
TrimRight(s, c) ==
    IF Len(s) > 0 /\ CharAt(s, Len(s)) = c
    THEN TrimRight(SubSeq(s, 1, Len(s) - 1), c) ELSE s

\* strings.Trim(s, cutset) for a one-character cutset
Trim(s, c) == TrimRight(TrimLeft(s, c), c)

HasPrefix(s, p) == Len(s) >= Len(p) /\ SubSeq(s, 1, Len(p)) = p

TrimPrefix(s, p) == IF HasPrefix(s, p) THEN SubSeq(s, Len(p) + 1, Len(s)) ELSE s

\* strings.LastIndex(s, c) for a one-character c: 0-based, -1 when absent
LastIndex(s, c) ==
    LET hits == {i \in 1..Len(s) : CharAt(s, i) = c}
    IN  IF hits = {} THEN -1 ELSE (CHOOSE i \in hits : \A j \in hits : j <= i) - 1

truncateString(s, maxLen) ==
    IF Len(s) <= maxLen THEN s ELSE SubSeq(s, 1, maxLen - 3) \o "..."

\* truncateString panics when it slices s[:maxLen-3] with a negative bound.
truncateStringFaults(s, maxLen) == Len(s) > maxLen /\ maxLen - 3 < 0

\* The name computed with the "/" of the image reference left in place.
GenerateDeploymentName_KeepsSlash(imageName) ==
    LET replaced == ReplaceAll(ReplaceAll(ReplaceAll(
                        ToLower(imageName), ":", "-"), "_", "-"), ".", "-")
        trimmed  == Trim(replaced, "-")
        named    == IF trimmed = "" \/ trimmed = "latest" THEN "new-deployment" ELSE trimmed
    IN  IF Len(named) > 0 /\ ~IsLowerLetter(CharAt(named, 1))
        THEN "app-" \o named ELSE named

\* The name computed without the "app-" prefix.
GenerateDeploymentName_NoPrefix(imageName) ==
    LET replaced == ReplaceAll(ReplaceAll(ReplaceAll(ReplaceAll(
                        ToLower(imageName), ":", "-"), "/", "-"), "_", "-"), ".", "-")
        trimmed  == Trim(replaced, "-")
    IN  IF trimmed = "" \/ trimmed = "latest" THEN "new-deployment" ELSE trimmed

\* The deployment name computed from the image reference.
GenerateDeploymentName(imageName) ==
    LET replaced == ReplaceAll(ReplaceAll(ReplaceAll(ReplaceAll(
                        ToLower(imageName), ":", "-"), "/", "-"), "_", "-"), ".", "-")
        trimmed  == Trim(replaced, "-")
        named    == IF trimmed = "" \/ trimmed = "latest" THEN "new-deployment" ELSE trimmed
    IN  IF Len(named) > 0 /\ ~IsLowerLetter(CharAt(named, 1))
        THEN "app-" \o named ELSE named

\* The name of the CreateConfirm step computed without replacing the dots.
renderModalDeploymentName_KeepsDot(imageName) ==
    LET replaced == ReplaceAll(ReplaceAll(ReplaceAll(
                        ToLower(imageName), ":", "-"), "/", "-"), "_", "-")
        trimmed  == Trim(replaced, "-")
        named    == IF trimmed = "" \/ trimmed = "latest" THEN "new-deployment" ELSE trimmed
    IN  IF Len(named) > 0 /\ ~IsLowerLetter(CharAt(named, 1))
        THEN "app-" \o named ELSE named

\* The name the CreateConfirm step of the modal displays.
renderModalDeploymentName(imageName) ==
    LET replaced == ReplaceAll(ReplaceAll(ReplaceAll(ReplaceAll(
                        ToLower(imageName), ":", "-"), "/", "-"), "_", "-"), ".", "-")
        trimmed  == Trim(replaced, "-")
        named    == IF trimmed = "" \/ trimmed = "latest" THEN "new-deployment" ELSE trimmed
    IN  IF Len(named) > 0 /\ ~IsLowerLetter(CharAt(named, 1))
        THEN "app-" \o named ELSE named

----------------------------------------------------------------------------
(* Domain records.  TableData is one struct for all three tabs; the fields *)
(* a tab does not use are empty.                                           *)

TableData(sha, descr, id, size, tag, pushed, created, pod, ns, status, restarts, age, node) ==
    [CommitSHA |-> sha, PRDescription |-> descr, ImageID |-> id, ImageSize |-> size,
     ImageTag |-> tag, PushedAt |-> pushed, CreatedAt |-> created, PodName |-> pod,
     Namespace |-> ns, Status |-> status, Restarts |-> restarts, Age |-> age,
     NodeName |-> node]

GitRow(sha, descr, pushed) ==
    TableData(sha, descr, "", "", "", pushed, "", "", "", "", "", "", "")
DockerRow(id, tag, size, created) ==
    TableData("", "", id, size, tag, "", created, "", "", "", "", "", "")
KubeRow(pod, ns, status, restarts, age, node) ==
    TableData("", "", "", "", "", "", "", pod, ns, status, restarts, age, node)
DeploymentRow(name, ns, status, restarts) ==
    TableData("", "", "", "", "", "", "", name, ns, status, restarts, "", "")

\* The image rows of the model.
ImageAppV1 == DockerRow("abc123", "localhost:5000/app:v1", "12.5 MB", "2024-01-01")
ImageNoTag == DockerRow("Not Found", "N/A", "N/A", "N/A")

\* The commits of the model (the second description is longer than its column).
Commit1 == GitRow("c0ffee", "Initial commit", "2024-01-01 10:00:00")
Commit2 == GitRow("deadbeef", "Add the deployment wizard and the pod definition view",
                  "2024-01-02 10:00:00")

\* The pods of the model.
PodWeb == KubeRow("web-6d4cf56db6-x2x7k", "default", "Running", "0", "5d", "minikube")
PodDb  == KubeRow("db-0", "prod", "Pending", "2", "1h", "")
PodNone == KubeRow("No pods found", "default", "N/A", "N/A", "N/A", "")

\* The deployments of the model.
DeploymentWeb == DeploymentRow("web", "default", "Ready", "1/1")
DeploymentApi == DeploymentRow("api", "default", "NotReady", "0/1")
DeploymentDb  == DeploymentRow("db", "default", "Partial", "1/2")

\* The images the registry can hold, in catalog order.
AllImages == <<ImageAppV1, ImageNoTag, DockerRow("def456", "localhost:5000/web", "8 MB", "2024-02-02")>>

\* The deployments the cluster can hold, in list order.
AllDeployments == <<DeploymentWeb, DeploymentApi, DeploymentDb>>

----------------------------------------------------------------------------
(* The table widget (bubbles table.Model): the fields the controller reads *)
(* and writes through the widget's methods.                                *)

clamp(v, low, high) ==
    LET lo == IF v > low THEN v ELSE low
    IN  IF lo < high THEN lo ELSE high

SetCursor(t, n) == [t EXCEPT !.cursor = clamp(n, 0, Len(t.rows) - 1)]

MoveUp(t, n) == [t EXCEPT !.cursor = clamp(t.cursor - n, 0, Len(t.rows) - 1)]

MoveDown(t, n) == [t EXCEPT !.cursor = clamp(t.cursor + n, 0, Len(t.rows) - 1)]

\* Lines the header of a styled table takes from the table's height.
HeaderHeight == 2

\* Go's integer division truncates toward zero.
GoDiv(a, b) == IF a >= 0 THEN a \div b ELSE -((-a) \div b)

\* table.Model.Update: the navigation keys of a focused table; every other
\* message leaves the table as it is.
TableUpdate(t, msg) ==
    IF ~t.focus \/ msg.type # "KeyMsg" THEN t
    ELSE CASE msg.key = "up"     -> MoveUp(t, 1)
           [] msg.key = "down"   -> MoveDown(t, 1)
           [] msg.key = "ctrl+d" -> MoveDown(t, GoDiv(t.height - HeaderHeight, 2))
           [] OTHER              -> t

\* The zero value of table.Model: no columns, no rows, not focused.
ZeroTable == [cols |-> <<>>, rows |-> <<>>, cursor |-> 0, width |-> 0, height |-> 0,
              focus |-> FALSE]

GitColumns == <<"Commit SHA", "PR Description", "Author", "PushedAt">>
DockerColumns == <<"Image ID", "Repository", "Tag", "Size", "Created">>
KubeColumns == <<"Pod Name", "Namespace", "Status", "Restarts", "Age", "Node">>
PodDefColumns == <<"Key", "Value">>

----------------------------------------------------------------------------
(* The state: the fields of the model struct, the commands in flight (and  *)
(* how many the user has requested so far), and                            *)
(* a record of the last call of Update (its message and the commands it    *)
(* returned), and whether a call of Update faulted (an index out of range, *)
(* which ends the program).  deploymentPods and selectedPod2 are left out: no code path  *)
(* reads them and loadPodsForDeployment is never called.                   *)

VARIABLES table, quitting, activeTab, gitData, dockerData, kubesData, width, height,
          showModal, selectedImage, showPodDef, selectedPod, selectedPodNS, podDefTable,
          deployments, selectedDeployment, modalStep,
          panicked, inflight, requests, lastMsg, cmds,
          call, ret

\* the model struct
view == <<table, quitting, activeTab, gitData, dockerData, kubesData, width, height,
          showModal, selectedImage, showPodDef, selectedPod, selectedPodNS, podDefTable,
          deployments, selectedDeployment, modalStep>>

vars == <<view, panicked, inflight, requests, lastMsg, cmds, call, ret>>

tabs == <<"Git", "Docker", "Kubernetes">>

----------------------------------------------------------------------------
(* Row projection. *)

GitTableRow(item) ==
    <<item.CommitSHA, truncateString(item.PRDescription, 40), "N/A", item.PushedAt>>

DockerTableRow(item) ==
    LET hasTag   == Len(item.ImageTag) > 0 /\ item.ImageTag # "N/A"
        imageTag == TrimPrefix(item.ImageTag, "localhost:5000/")
        colon    == LastIndex(imageTag, ":")
        repository == IF ~hasTag THEN "N/A"
                      ELSE IF colon > 0 THEN SubSeq(imageTag, 1, colon) ELSE imageTag
        tag      == IF ~hasTag THEN "N/A"
                    ELSE IF colon > 0 THEN SubSeq(imageTag, colon + 2, Len(imageTag))
                    ELSE "latest"
    IN  <<truncateString(item.ImageID, 20), truncateString(repository, 30),
          truncateString(tag, 15), truncateString(item.ImageSize, 12),
          truncateString(item.CreatedAt, 25)>>

KubeTableRow(item) ==
    <<truncateString(item.PodName, 35), item.Namespace, item.Status, item.Restarts,
      item.Age, truncateString(item.NodeName, 20)>>

MapRows(Row(_), data) == [i \in 1..Len(data) |-> Row(data[i])]

\* updateTableForTab: SetColumns and SetRows for the active tab; the cursor
\* is left where it was.
updateTableForTab(t, tab, git, docker, kube) ==
    IF t.cols = <<>> THEN t
    ELSE CASE tab = 1 -> [t EXCEPT !.cols = DockerColumns,
                                   !.rows = MapRows(DockerTableRow, docker)]
           [] tab = 2 -> [t EXCEPT !.cols = KubeColumns,
                                   !.rows = MapRows(KubeTableRow, kube)]
           [] OTHER   -> [t EXCEPT !.cols = GitColumns,
                                   !.rows = IF tab = 0 /\ Len(git) = 0
                                            THEN << <<"No data available", "", "", "">> >>
                                            ELSE MapRows(GitTableRow, git)]

----------------------------------------------------------------------------
(* Commands (tea.Cmd) and the messages they complete with. *)

QuitCmd == [kind |-> "Quit"]
ListWorkloadsCmd == [kind |-> "ListWorkloads"]
RefreshImagesCmd == [kind |-> "RefreshImages"]
DetailCmd(name, ns) == [kind |-> "Detail", name |-> name, namespace |-> ns]
DeleteCmd(imageID) == [kind |-> "Delete", imageID |-> imageID]
PullCmd(imageTag) == [kind |-> "Pull", imageTag |-> imageTag]
UpdateWorkloadCmd(image, name, ns) ==
    [kind |-> "UpdateWorkload", image |-> image, name |-> name, namespace |-> ns]
CreateWorkloadCmd(image, name, ns) ==
    [kind |-> "CreateWorkload", image |-> image, name |-> name, namespace |-> ns]

\* loadDeployments, loadPodDetails, deleteDockerImage, pullDockerImage,
\* deployImageToPod, createNewDeployment, refreshDockerData: the command each
\* returns, with the arguments its closure captures.
loadDeployments == ListWorkloadsCmd
loadPodDetails(pod, ns) == DetailCmd(pod, ns)
deleteDockerImage(imageID) == DeleteCmd(imageID)
pullDockerImage(imageTag) == PullCmd(imageTag)
deployImageToPod(imageName, deploymentName, namespace) ==
    UpdateWorkloadCmd(imageName, deploymentName, namespace)
\* createNewDeployment creating in the namespace of the registry.
createNewDeployment_OtherNamespace(imageName) ==
    CreateWorkloadCmd(imageName, GenerateDeploymentName(imageName), "registry")

createNewDeployment(imageName) ==
    CreateWorkloadCmd(imageName, GenerateDeploymentName(imageName), "default")
refreshDockerData == RefreshImagesCmd

KeyMsg(k) == [type |-> "KeyMsg", key |-> k]
WindowSizeMsg(w, h) == [type |-> "WindowSizeMsg", Width |-> w, Height |-> h]
deploymentsMsg(list) == [type |-> "deploymentsMsg", deployments |-> list]
podDetailsMsg(details, err) == [type |-> "podDetailsMsg", details |-> details, err |-> err]
dockerDeleteMsg(success) == [type |-> "dockerDeleteMsg", success |-> success]
dockerPullMsg(success) == [type |-> "dockerPullMsg", success |-> success]
deploymentMsg(success) == [type |-> "deploymentMsg", success |-> success]
dockerRefreshMsg(data) == [type |-> "dockerRefreshMsg", data |-> data]

----------------------------------------------------------------------------
(* The collaborators: what each command can complete with. *)

Prefix(seq, n) == SubSeq(seq, 1, n)

\* getKubernetesDeployments: a placeholder entry when there is no kubeconfig
\* or the cluster holds no deployment; the pods of the namespace when listing
\* the deployments fails.  It never returns an error.
getKubernetesDeployments(env) ==
    IF ~env.kubeconfig
    THEN << DeploymentRow("No Kubernetes cluster found", "N/A", "", "") >>
    ELSE IF ~env.listOk
    THEN env.pods
    ELSE IF Len(env.items) = 0
    THEN << DeploymentRow("No deployments found", "default", "N/A", "") >>
    ELSE env.items

ClusterEnvs ==
    {[kubeconfig |-> TRUE, listOk |-> FALSE, items |-> <<>>, pods |-> <<>>]}
    \cup {[kubeconfig |-> TRUE, listOk |-> TRUE, items |-> Prefix(AllDeployments, n),
           pods |-> <<>>] : n \in 0..MaxDeployments}

\* getDockerImagesInfo as refreshDockerData converts it: at least one row.
ImageLists == {Prefix(AllImages, n) : n \in 1..MaxImages}

\* getKubernetesPodDetails: the detail map of a pod that is not scheduled yet
\* (its Node is empty): the name and the namespace it was asked for.
DetailMaps(pod, ns) ==
    {[k \in {"Name", "Namespace", "Node"} |->
        CASE k = "Name" -> pod [] k = "Namespace" -> ns [] OTHER -> ""]}

\* The messages a command in flight can complete with.
Completions(c) ==
    CASE c.kind = "ListWorkloads" ->
            {deploymentsMsg(getKubernetesDeployments(env)) : env \in ClusterEnvs}
      [] c.kind = "Detail" ->
            {podDetailsMsg(d, FALSE) : d \in DetailMaps(c.name, c.namespace)}
            \cup {podDetailsMsg(<<>>, TRUE)}
      [] c.kind = "Delete" -> {dockerDeleteMsg(ok) : ok \in BOOLEAN}
      [] c.kind = "Pull" -> {dockerPullMsg(ok) : ok \in BOOLEAN}
      [] c.kind \in {"CreateWorkload", "UpdateWorkload"} ->
            {deploymentMsg(ok) : ok \in BOOLEAN}
      [] c.kind = "RefreshImages" ->
            {dockerRefreshMsg(data) : data \in ImageLists} \cup {dockerDeleteMsg(FALSE)}
      [] OTHER -> {}

----------------------------------------------------------------------------
(* The pod definition table. *)

orderedKeys ==
    <<"Name", "Namespace", "Status", "Node", "Pod IP", "Host IP",
      "Created", "Start Time", "Service Account", "Restart Policy", "DNS Policy",
      "Container Name", "Container Image", "Image Pull Policy", "Container Ports",
      "CPU Request", "Memory Request", "CPU Limit", "Memory Limit",
      "Container Ready", "Restart Count", "Container ID",
      "Ready Condition", "Scheduled Condition", "Initialized Condition",
      "Labels", "Annotations">>

Range(seq) == {seq[i] : i \in 1..Len(seq)}

\* The ordered keys listed with their empty values as well.
RECURSIVE OrderedRows_KeepsEmpty(_, _)
OrderedRows_KeepsEmpty(details, i) ==
    IF i > Len(orderedKeys) THEN <<>>
    ELSE (IF orderedKeys[i] \in DOMAIN details
          THEN << <<orderedKeys[i], truncateString(details[orderedKeys[i]], 70)>> >>
          ELSE <<>>)
         \o OrderedRows_KeepsEmpty(details, i + 1)

RECURSIVE OrderedRows(_, _)
OrderedRows(details, i) ==
    IF i > Len(orderedKeys) THEN <<>>
    ELSE (IF orderedKeys[i] \in DOMAIN details /\ details[orderedKeys[i]] # ""
          THEN << <<orderedKeys[i], truncateString(details[orderedKeys[i]], 70)>> >>
          ELSE <<>>)
         \o OrderedRows(details, i + 1)

\* The orders in which a Go range over the map can visit the given keys.
Orders(keys) ==
    {o \in [1..Cardinality(keys) -> keys] : \A i, j \in DOMAIN o : i # j => o[i] # o[j]}

RECURSIVE RemainingRows(_, _, _)
RemainingRows(details, order, i) ==
    IF i > Len(order) THEN <<>>
    ELSE (IF details[order[i]] # ""
          THEN << <<order[i], truncateString(details[order[i]], 70)>> >>
          ELSE <<>>)
         \o RemainingRows(details, order, i + 1)

\* initPodDefTable: the tables it can build from the details (a Go map is
\* ranged over in no fixed order); one error row when details is nil.
initPodDefTable(details, isNil) ==
    LET rowsets == IF isNil
                   THEN { << <<"Error", "Failed to load pod details">> >> }
                   ELSE {OrderedRows(details, 1) \o RemainingRows(details, o, 1) :
                           o \in Orders(DOMAIN details \ Range(orderedKeys))}
    IN  {[cols |-> PodDefColumns, rows |-> rows, cursor |-> 0, width |-> 0,
          height |-> 20, focus |-> TRUE] : rows \in rowsets}

----------------------------------------------------------------------------
(* model.Update.  Every action below is one call of Update for one message: *)
(* Receive records the message, the body is the matching case of the       *)
(* switch, Dispatch hands the returned command to the runtime.             *)

dataVars == <<gitData, dockerData, kubesData>>
sizeVars == <<width, height>>
modalVars == <<showModal, selectedImage, deployments, selectedDeployment, modalStep>>
podVars == <<showPodDef, selectedPod, selectedPodNS, podDefTable>>

Receive(msg) ==
    /\ ~quitting
    /\ ~panicked
    /\ lastMsg' = msg
    /\ UNCHANGED <<call, ret>>

\* What the runtime holds of a command in flight: the operation, and for
\* Detail the pod its closure captured (the only arguments a completion
\* message depends on).
Task(c) == IF c.kind = "Detail" THEN c ELSE [kind |-> c.kind]

\* The commands of a returned tea.Cmd that run asynchronously (tea.Quit ends
\* the program instead).
Started(returned) ==
    IF returned = <<>> \/ returned[1].kind = "Quit" THEN EmptyBag
    ELSE SetToBag({Task(returned[1])})

Dispatch ==
    /\ inflight' = inflight (+) Started(cmds')
    /\ requests' = requests + BagCardinality(Started(cmds'))
    /\ BagCardinality(inflight') <= MaxInFlight
    /\ requests' <= MaxRequests

\* The finished command staying in flight, to complete once more.
DispatchAfter_KeepsInFlight(c) ==
    /\ inflight' = inflight (+) Started(cmds')
    /\ BagCardinality(inflight') <= MaxInFlight
    /\ UNCHANGED requests

\* The command c has finished: its message is processed and what the
\* handler returns is started.
DispatchAfter(c) ==
    /\ inflight' = (inflight (-) SetToBag({c})) (+) Started(cmds')
    /\ UNCHANGED requests

\* An index expression of Update read out of range: the program ends.
Panic ==
    /\ panicked' = TRUE
    /\ cmds' = <<>>
    /\ UNCHANGED view

\* Lines 298-304: the message goes to the table that is on screen.
UpdateVisibleTable(msg) ==
    /\ IF showPodDef
       THEN /\ podDefTable' = TableUpdate(podDefTable, msg)
            /\ UNCHANGED table
       ELSE /\ table' = TableUpdate(table, msg)
            /\ UNCHANGED podDefTable
    /\ cmds' = <<>>
    /\ UNCHANGED <<quitting, activeTab, dataVars, sizeVars, modalVars,
                   showPodDef, selectedPod, selectedPodNS, panicked>>

----------------------------------------------------------------------------
(* Completion messages. *)

HandleDeploymentsMsg(msg) ==
    /\ deployments' = msg.deployments
    /\ cmds' = <<>>
    /\ UNCHANGED <<table, quitting, activeTab, dataVars, sizeVars, showModal,
                   selectedImage, selectedDeployment, modalStep, podVars, panicked>>

\* The detail completion leaving the table as it is when it carries an error.
HandlePodDetailsMsg_KeepsRowsOnError(msg) ==
    /\ IF msg.err
       THEN UNCHANGED podDefTable
       ELSE podDefTable' \in initPodDefTable(msg.details, msg.err)
    /\ cmds' = <<>>
    /\ UNCHANGED <<table, quitting, activeTab, dataVars, sizeVars, modalVars,
                   showPodDef, selectedPod, selectedPodNS, panicked>>

\* The detail completion opening the detail view again.
HandlePodDetailsMsg_ReopensView(msg) ==
    /\ podDefTable' \in initPodDefTable(msg.details, msg.err)
    /\ showPodDef' = TRUE
    /\ cmds' = <<>>
    /\ UNCHANGED <<table, quitting, activeTab, dataVars, sizeVars, modalVars,
                   selectedPod, selectedPodNS, panicked>>

HandlePodDetailsMsg(msg) ==
    /\ podDefTable' \in initPodDefTable(msg.details, msg.err)
    /\ cmds' = <<>>
    /\ UNCHANGED <<table, quitting, activeTab, dataVars, sizeVars, modalVars,
                   showPodDef, selectedPod, selectedPodNS, panicked>>

\* The delete completion refreshing the images after a failure too.
HandleDockerDeleteMsg_AlwaysRefresh(msg) ==
    /\ cmds' = <<refreshDockerData>>
    /\ UNCHANGED <<view, panicked>>

HandleDockerDeleteMsg(msg) ==
    /\ cmds' = IF msg.success THEN <<refreshDockerData>> ELSE <<>>
    /\ UNCHANGED <<view, panicked>>

\* The pull completion refreshing whether or not the pull succeeded.
HandleDockerPullMsg_AlwaysRefresh(msg) ==
    /\ cmds' = <<refreshDockerData>>
    /\ UNCHANGED <<view, panicked>>

HandleDockerPullMsg(msg) ==
    /\ cmds' = IF msg.success THEN <<refreshDockerData>> ELSE <<>>
    /\ UNCHANGED <<view, panicked>>

\* The deployment completion reloading the images instead of the deployments.
HandleDeploymentMsg_RefreshImages(msg) ==
    /\ table' = IF msg.success THEN SetCursor(table, 0) ELSE table
    /\ cmds' = IF msg.success THEN <<refreshDockerData>> ELSE <<>>
    /\ UNCHANGED <<quitting, activeTab, dataVars, sizeVars, modalVars, podVars, panicked>>

\* The deployment completion leaving the cursor where it is.
HandleDeploymentMsg_KeepsCursor(msg) ==
    /\ cmds' = IF msg.success THEN <<loadDeployments>> ELSE <<>>
    /\ UNCHANGED <<table, quitting, activeTab, dataVars, sizeVars, modalVars, podVars,
                   panicked>>

\* The deployment completion reloading the deployments after a failure too.
HandleDeploymentMsg_ReloadOnFailure(msg) ==
    /\ table' = IF msg.success THEN SetCursor(table, 0) ELSE table
    /\ cmds' = <<loadDeployments>>
    /\ UNCHANGED <<quitting, activeTab, dataVars, sizeVars, modalVars, podVars, panicked>>

\* The deployment completion replacing the workload rows after a success.
HandleDeploymentMsg_ReloadsWorkloads(msg) ==
    /\ table' = IF msg.success THEN SetCursor(table, 0) ELSE table
    /\ kubesData' = IF msg.success THEN <<PodWeb>> ELSE kubesData
    /\ cmds' = IF msg.success THEN <<loadDeployments>> ELSE <<>>
    /\ UNCHANGED <<quitting, activeTab, gitData, dockerData, sizeVars, modalVars,
                   podVars, panicked>>

HandleDeploymentMsg(msg) ==
    /\ table' = IF msg.success THEN SetCursor(table, 0) ELSE table
    /\ cmds' = IF msg.success THEN <<loadDeployments>> ELSE <<>>
    /\ UNCHANGED <<quitting, activeTab, dataVars, sizeVars, modalVars, podVars, panicked>>

\* The refresh completion keeping the old rows when the payload is shorter.
HandleDockerRefreshMsg_KeepsOldRows(msg) ==
    /\ dockerData' = IF Len(msg.data) < Len(dockerData) THEN dockerData ELSE msg.data
    /\ table' = IF activeTab = 1
                THEN updateTableForTab(table, activeTab, gitData, dockerData', kubesData)
                ELSE table
    /\ cmds' = <<>>
    /\ UNCHANGED <<quitting, activeTab, gitData, kubesData, sizeVars, modalVars,
                   podVars, panicked>>

\* The refresh completion capturing the first of the new rows for an open
\* wizard.
HandleDockerRefreshMsg_RecapturesImage(msg) ==
    /\ dockerData' = msg.data
    /\ table' = IF activeTab = 1
                THEN updateTableForTab(table, activeTab, gitData, dockerData', kubesData)
                ELSE table
    /\ selectedImage' = IF showModal THEN msg.data[1].ImageID ELSE selectedImage
    /\ cmds' = <<>>
    /\ UNCHANGED <<quitting, activeTab, gitData, kubesData, sizeVars, showModal,
                   deployments, selectedDeployment, modalStep, podVars, panicked>>

HandleDockerRefreshMsg(msg) ==
    /\ dockerData' = msg.data
    /\ table' = IF activeTab = 1
                THEN updateTableForTab(table, activeTab, gitData, dockerData', kubesData)
                ELSE table
    /\ cmds' = <<>>
    /\ UNCHANGED <<quitting, activeTab, gitData, kubesData, sizeVars, modalVars,
                   podVars, panicked>>

\* The resize putting the cursor of the main table back on the first row.
HandleWindowSizeMsg_ResetsCursor(msg) ==
    /\ width' = msg.Width
    /\ height' = msg.Height
    /\ table' = [table EXCEPT !.width = msg.Width, !.height = msg.Height - 15,
                              !.cursor = 0]
    /\ podDefTable' = IF podDefTable.cols # <<>>
                      THEN [podDefTable EXCEPT !.width = msg.Width,
                                               !.height = msg.Height - 15]
                      ELSE podDefTable
    /\ cmds' = <<>>
    /\ UNCHANGED <<quitting, activeTab, dataVars, modalVars, showPodDef, selectedPod,
                   selectedPodNS, panicked>>

HandleWindowSizeMsg(msg) ==
    /\ width' = msg.Width
    /\ height' = msg.Height
    /\ table' = [table EXCEPT !.width = msg.Width, !.height = msg.Height - 15]
    /\ podDefTable' = IF podDefTable.cols # <<>>
                      THEN [podDefTable EXCEPT !.width = msg.Width,
                                               !.height = msg.Height - 15]
                      ELSE podDefTable
    /\ cmds' = <<>>
    /\ UNCHANGED <<quitting, activeTab, dataVars, modalVars, showPodDef, selectedPod,
                   selectedPodNS, panicked>>

----------------------------------------------------------------------------
(* Key presses. *)

\* case "ctrl+c", "q"
HandleQuitKey ==
    /\ quitting' = TRUE
    /\ cmds' = <<QuitCmd>>
    /\ UNCHANGED <<table, activeTab, dataVars, sizeVars, modalVars, podVars, panicked>>

\* Keys "1", "2", "3" outside the modal, and "tab": show another tab.
SwitchTab(tab) ==
    /\ activeTab' = tab
    /\ table' = updateTableForTab(table, activeTab', gitData, dockerData, kubesData)
    /\ cmds' = <<>>
    /\ UNCHANGED <<quitting, dataVars, sizeVars, modalVars, podVars, panicked>>

\* Key "1" in the modal: select, or confirm.
ModalKey1 ==
    /\ IF modalStep = 0
       THEN /\ modalStep' = IF selectedDeployment = -1 THEN 1 ELSE 2
            /\ cmds' = <<>>
            /\ UNCHANGED <<showModal, panicked>>
       ELSE IF modalStep = 1
       THEN /\ showModal' = FALSE
            /\ modalStep' = 0
            /\ cmds' = <<createNewDeployment(selectedImage)>>
            /\ UNCHANGED panicked
       ELSE IF Len(deployments) > 0 /\ selectedDeployment < Len(deployments)
       THEN IF selectedDeployment < 0
            THEN /\ panicked' = TRUE
                 /\ cmds' = <<>>
                 /\ UNCHANGED <<showModal, modalStep>>
            ELSE /\ showModal' = FALSE
                 /\ modalStep' = 0
                 /\ cmds' = <<deployImageToPod(selectedImage,
                                 deployments[selectedDeployment + 1].PodName,
                                 deployments[selectedDeployment + 1].Namespace)>>
                 /\ UNCHANGED panicked
       ELSE /\ showModal' = FALSE
            /\ modalStep' = 0
            /\ cmds' = <<>>
            /\ UNCHANGED panicked
    /\ UNCHANGED <<table, quitting, activeTab, dataVars, sizeVars, selectedImage,
                   deployments, selectedDeployment, podVars>>

HandleKey1 == IF showModal THEN ModalKey1 ELSE SwitchTab(0)

\* Key "2" with Back from UpdateConfirm leading to CreateConfirm.
ModalKey2_BackToCreate ==
    /\ IF modalStep = 1
       THEN /\ modalStep' = 0
            /\ UNCHANGED showModal
       ELSE IF modalStep = 2
       THEN /\ modalStep' = 1
            /\ UNCHANGED showModal
       ELSE /\ showModal' = FALSE
            /\ modalStep' = 0
    /\ cmds' = <<>>
    /\ UNCHANGED <<table, quitting, activeTab, dataVars, sizeVars, selectedImage,
                   deployments, selectedDeployment, podVars, panicked>>

\* Key "2" with Cancel in SelectTarget leaving the modal open.
ModalKey2_CancelLeavesOpen ==
    /\ modalStep' = 0
    /\ cmds' = <<>>
    /\ UNCHANGED <<table, quitting, activeTab, dataVars, sizeVars, showModal,
                   selectedImage, deployments, selectedDeployment, podVars, panicked>>

\* Key "2" in the modal: back, or cancel.
ModalKey2 ==
    /\ IF modalStep = 1 \/ modalStep = 2
       THEN /\ modalStep' = 0
            /\ UNCHANGED showModal
       ELSE /\ showModal' = FALSE
            /\ modalStep' = 0
    /\ cmds' = <<>>
    /\ UNCHANGED <<table, quitting, activeTab, dataVars, sizeVars, selectedImage,
                   deployments, selectedDeployment, podVars, panicked>>

HandleKey2 == IF showModal THEN ModalKey2 ELSE SwitchTab(1)

HandleKey3 ==
    IF showModal
    THEN /\ cmds' = <<>>
         /\ UNCHANGED <<view, panicked>>
    ELSE SwitchTab(2)

\* The "tab" key cycling backwards.
HandleTabKey_Backwards == SwitchTab((activeTab + 2) % Len(tabs))

HandleTabKey == SwitchTab((activeTab + 1) % Len(tabs))

\* The image reference the wizard captures from a row.
ImageReference(imageData) ==
    IF imageData.ImageTag = "" THEN imageData.ImageID ELSE imageData.ImageTag

OpenWizard(imageData) ==
    /\ selectedImage' = ImageReference(imageData)
    /\ modalStep' = 0
    /\ selectedDeployment' = -1
    /\ showModal' = TRUE
    /\ cmds' = <<loadDeployments>>
    /\ UNCHANGED <<table, quitting, activeTab, dataVars, sizeVars, deployments,
                   podVars, panicked>>

OpenPodDefinition(row) ==
    /\ selectedPod' = row.PodName
    /\ selectedPodNS' = row.Namespace
    /\ showPodDef' = TRUE
    /\ cmds' = <<loadPodDetails(selectedPod', selectedPodNS')>>
    /\ UNCHANGED <<table, quitting, activeTab, dataVars, sizeVars, modalVars,
                   podDefTable, panicked>>

NoChange ==
    /\ cmds' = <<>>
    /\ UNCHANGED <<view, panicked>>

HandleEnterKey ==
    IF activeTab = 1 /\ Len(dockerData) > 0
    THEN IF table.cursor < 0 THEN Panic
         ELSE IF table.cursor < Len(dockerData)
         THEN OpenWizard(dockerData[table.cursor + 1])
         ELSE NoChange
    ELSE IF activeTab = 2 /\ Len(kubesData) > 0
    THEN IF table.cursor < 0 THEN Panic
         ELSE IF table.cursor < Len(kubesData)
         THEN OpenPodDefinition(kubesData[table.cursor + 1])
         ELSE NoChange
    ELSE NoChange

\* Esc with the branch for the modal left out.
HandleEscKey_SkipsModal ==
    IF showPodDef
    THEN /\ showPodDef' = FALSE
         /\ cmds' = <<>>
         /\ UNCHANGED <<table, quitting, activeTab, dataVars, sizeVars, modalVars,
                        selectedPod, selectedPodNS, podDefTable, panicked>>
    ELSE HandleQuitKey

\* Esc clearing the wizard's selection when it closes the modal.
HandleEscKey_ClearsSelection ==
    IF showModal
    THEN /\ showModal' = FALSE
         /\ modalStep' = 0
         /\ selectedImage' = ""
         /\ selectedDeployment' = -1
         /\ cmds' = <<>>
         /\ UNCHANGED <<table, quitting, activeTab, dataVars, sizeVars,
                        deployments, podVars, panicked>>
    ELSE IF showPodDef
    THEN /\ showPodDef' = FALSE
         /\ cmds' = <<>>
         /\ UNCHANGED <<table, quitting, activeTab, dataVars, sizeVars, modalVars,
                        selectedPod, selectedPodNS, podDefTable, panicked>>
    ELSE HandleQuitKey

\* Esc closing the modal but doing nothing in the detail view.
HandleEscKey_IgnoresDetailView ==
    IF showModal
    THEN /\ showModal' = FALSE
         /\ modalStep' = 0
         /\ cmds' = <<>>
         /\ UNCHANGED <<table, quitting, activeTab, dataVars, sizeVars, selectedImage,
                        deployments, selectedDeployment, podVars, panicked>>
    ELSE IF showPodDef
    THEN /\ cmds' = <<>>
         /\ UNCHANGED <<view, panicked>>
    ELSE HandleQuitKey

\* Esc closing the modal without going back to the first step.
HandleEscKey_KeepsStep ==
    IF showModal
    THEN /\ showModal' = FALSE
         /\ cmds' = <<>>
         /\ UNCHANGED <<table, quitting, activeTab, dataVars, sizeVars, selectedImage,
                        deployments, selectedDeployment, modalStep, podVars, panicked>>
    ELSE IF showPodDef
    THEN /\ showPodDef' = FALSE
         /\ cmds' = <<>>
         /\ UNCHANGED <<table, quitting, activeTab, dataVars, sizeVars, modalVars,
                        selectedPod, selectedPodNS, podDefTable, panicked>>
    ELSE HandleQuitKey

HandleEscKey ==
    IF showModal
    THEN /\ showModal' = FALSE
         /\ modalStep' = 0
         /\ cmds' = <<>>
         /\ UNCHANGED <<table, quitting, activeTab, dataVars, sizeVars, selectedImage,
                        deployments, selectedDeployment, podVars, panicked>>
    ELSE IF showPodDef
    THEN /\ showPodDef' = FALSE
         /\ cmds' = <<>>
         /\ UNCHANGED <<table, quitting, activeTab, dataVars, sizeVars, modalVars,
                        selectedPod, selectedPodNS, podDefTable, panicked>>
    ELSE HandleQuitKey

\* Keys "up"/"k" and "down"/"j" (step = -1 or 1): move the highlighted
\* candidate in SelectTarget; anywhere else the key goes to the table.
MoveCandidate(step) ==
    /\ selectedDeployment' =
         IF step < 0
         THEN IF Len(deployments) > 0 /\ selectedDeployment > -1
              THEN selectedDeployment - 1 ELSE selectedDeployment
         ELSE IF Len(deployments) > 0 /\ selectedDeployment < Len(deployments) - 1
              THEN selectedDeployment + 1 ELSE selectedDeployment
    /\ cmds' = <<>>
    /\ UNCHANGED <<table, quitting, activeTab, dataVars, sizeVars, showModal,
                   selectedImage, deployments, modalStep, podVars, panicked>>

HandleUpKey ==
    IF showModal /\ modalStep = 0 THEN MoveCandidate(-1)
    ELSE UpdateVisibleTable(KeyMsg("up"))

HandleDownKey ==
    IF showModal /\ modalStep = 0 THEN MoveCandidate(1)
    ELSE UpdateVisibleTable(KeyMsg("down"))

IssueOnly(c) ==
    /\ cmds' = <<c>>
    /\ UNCHANGED <<view, panicked>>

HandleCtrlD ==
    IF activeTab = 1 /\ Len(dockerData) > 0 /\ ~showModal
    THEN IF table.cursor < 0 THEN Panic
         ELSE IF table.cursor < Len(dockerData)
         THEN IssueOnly(deleteDockerImage(dockerData[table.cursor + 1].ImageID))
         ELSE UpdateVisibleTable(KeyMsg("ctrl+d"))
    ELSE UpdateVisibleTable(KeyMsg("ctrl+d"))

HandleCtrlP ==
    IF activeTab = 1 /\ Len(dockerData) > 0 /\ ~showModal
    THEN IF table.cursor < 0 THEN Panic
         ELSE IF /\ table.cursor < Len(dockerData)
                 /\ dockerData[table.cursor + 1].ImageTag # ""
                 /\ dockerData[table.cursor + 1].ImageTag # "N/A"
         THEN IssueOnly(pullDockerImage(dockerData[table.cursor + 1].ImageTag))
         ELSE UpdateVisibleTable(KeyMsg("ctrl+p"))
    ELSE UpdateVisibleTable(KeyMsg("ctrl+p"))

----------------------------------------------------------------------------
(* The program: startTUI's model, and one action per message. *)

\* The terminal sizes a resize reports.
WindowSizes == {<<80, 24>>}

\* No helper is being applied on its own.
NoCall == [fn |-> "none"]
NoReturn == [done |-> FALSE]

\* The commit lists main hands to startTUI: one row per commit that
\* ListCommits returned, with no placeholder when it returned none.
CommitLists == {<<>>, <<Commit1, Commit2>>}

\* The model startTUI builds and hands to the runtime.
startTUI ==
    /\ gitData \in CommitLists
    /\ dockerData = Prefix(AllImages, MaxImages)
    /\ kubesData = <<PodWeb, PodDb>>
    /\ table = [cols |-> GitColumns, rows |-> MapRows(GitTableRow, gitData),
                cursor |-> 0, width |-> 0, height |-> 10, focus |-> TRUE]
    /\ quitting = FALSE
    /\ activeTab = 0
    /\ width = 0
    /\ height = 0
    /\ showModal = FALSE
    /\ selectedImage = ""
    /\ showPodDef = FALSE
    /\ selectedPod = ""
    /\ selectedPodNS = ""
    /\ podDefTable = ZeroTable
    /\ deployments = <<>>
    /\ selectedDeployment = 0
    /\ modalStep = 0
    /\ panicked = FALSE
    /\ inflight = EmptyBag
    /\ requests = 0
    /\ lastMsg = [type |-> "none"]
    /\ cmds = <<>>

\* The program started with commits to show.
Init ==
    /\ call = NoCall
    /\ ret = NoReturn
    /\ startTUI
    /\ gitData # <<>>

\* The program started with no commit to show.
EmptyInit ==
    /\ call = NoCall
    /\ ret = NoReturn
    /\ startTUI
    /\ gitData = <<>>

KeyQuit == \E k \in {"ctrl+c", "q"} : Receive(KeyMsg(k)) /\ HandleQuitKey /\ Dispatch
Key1 == Receive(KeyMsg("1")) /\ HandleKey1 /\ Dispatch
Key2 == Receive(KeyMsg("2")) /\ HandleKey2 /\ Dispatch
Key3 == Receive(KeyMsg("3")) /\ HandleKey3 /\ Dispatch
KeyTab == Receive(KeyMsg("tab")) /\ HandleTabKey /\ Dispatch
KeyEnter == Receive(KeyMsg("enter")) /\ HandleEnterKey /\ Dispatch
KeyEsc == Receive(KeyMsg("esc")) /\ HandleEscKey /\ Dispatch
KeyUp == Receive(KeyMsg("up")) /\ HandleUpKey /\ Dispatch
KeyDown == Receive(KeyMsg("down")) /\ HandleDownKey /\ Dispatch
KeyCtrlD == Receive(KeyMsg("ctrl+d")) /\ HandleCtrlD /\ Dispatch
KeyCtrlP == Receive(KeyMsg("ctrl+p")) /\ HandleCtrlP /\ Dispatch
\* a key no case of the switch names
KeyOther == Receive(KeyMsg("x")) /\ UpdateVisibleTable(KeyMsg("x")) /\ Dispatch

Resize ==
    \E size \in WindowSizes :
        /\ Receive(WindowSizeMsg(size[1], size[2]))
        /\ HandleWindowSizeMsg(lastMsg')
        /\ Dispatch

\* A command in flight completes with a message of the given type.
Completes(c, msg, type) ==
    /\ c \in BagToSet(inflight)
    /\ msg \in Completions(c)
    /\ msg.type = type
    /\ Receive(msg)

DeploymentsLoaded ==
    \E c \in BagToSet(inflight) : \E msg \in Completions(c) :
        Completes(c, msg, "deploymentsMsg") /\ HandleDeploymentsMsg(msg) /\ DispatchAfter(c)

PodDetailsLoaded ==
    \E c \in BagToSet(inflight) : \E msg \in Completions(c) :
        Completes(c, msg, "podDetailsMsg") /\ HandlePodDetailsMsg(msg) /\ DispatchAfter(c)

DockerDeleteDone ==
    \E c \in BagToSet(inflight) : \E msg \in Completions(c) :
        Completes(c, msg, "dockerDeleteMsg") /\ HandleDockerDeleteMsg(msg) /\ DispatchAfter(c)

DockerPullDone ==
    \E c \in BagToSet(inflight) : \E msg \in Completions(c) :
        Completes(c, msg, "dockerPullMsg") /\ HandleDockerPullMsg(msg) /\ DispatchAfter(c)

DeploymentDone ==
    \E c \in BagToSet(inflight) : \E msg \in Completions(c) :
        Completes(c, msg, "deploymentMsg") /\ HandleDeploymentMsg(msg) /\ DispatchAfter(c)

DockerRefreshed ==
    \E c \in BagToSet(inflight) : \E msg \in Completions(c) :
        Completes(c, msg, "dockerRefreshMsg") /\ HandleDockerRefreshMsg(msg) /\ DispatchAfter(c)

Next ==
    \/ KeyQuit \/ Key1 \/ Key2 \/ Key3 \/ KeyTab \/ KeyEnter \/ KeyEsc
    \/ KeyUp \/ KeyDown \/ KeyCtrlD \/ KeyCtrlP \/ KeyOther
    \/ Resize
    \/ DeploymentsLoaded \/ PodDetailsLoaded \/ DockerDeleteDone \/ DockerPullDone
    \/ DeploymentDone \/ DockerRefreshed

Spec == Init /\ [][Next]_vars

EmptySpec == EmptyInit /\ [][Next]_vars

\* A command in flight returns its message and Update processes it.
Complete ==
    \/ DeploymentsLoaded \/ PodDetailsLoaded \/ DockerDeleteDone \/ DockerPullDone
    \/ DeploymentDone \/ DockerRefreshed

\* The runtime runs every command in a goroutine of its own and hands the
\* message it returns to Update: while a command is in flight, some
\* completion happens.
Fairness == WF_vars(Complete)

FairSpec == Spec /\ Fairness

----------------------------------------------------------------------------
(* The helpers on their own: a call is drawn from the bounded inputs and   *)
(* the helper is applied to it once.                                       *)

\* The strings over an alphabet of characters, up to a length.
RECURSIVE StringsOver(_, _)
StringsOver(alphabet, n) ==
    IF n = 0 THEN {""}
    ELSE LET shorter == StringsOver(alphabet, n - 1)
         IN  shorter \cup {c \o t : c \in alphabet, t \in shorter}

TruncateCalls ==
    {[fn |-> "truncateString", s |-> s, maxLen |-> w] :
        s \in StringsOver({"a", "b"}, MaxStringLen), w \in 0..MaxWidth}

\* Image references: every short string over the characters the name
\* generation treats differently, and some whole references.
ImageNames ==
    StringsOver({"a", "A", "1", "-", ":", "/", "_", "."}, MaxNameLen)
    \cup {"latest", "Latest", "app:latest", ":latest.", "N/A", "Not Found",
          "localhost:5000/app:v1", "localhost:5000/My_App:V1.2"}

GenerateNameCalls == {[fn |-> "createNewDeployment", imageName |-> i] : i \in ImageNames}

Returned(value) == [done |-> TRUE, fault |-> FALSE, value |-> value]
Faulted == [done |-> TRUE, fault |-> TRUE]

RenderNameCalls == {[fn |-> "renderModal", imageName |-> i] : i \in ImageNames}

\* The keys getPodDetailsViaKubectl sets when the pod's description has the
\* line: Status and Node are among the ordered keys, Restarts and Image are
\* not.
OptionalKeys == {"Status", "Node", "Restarts", "Image"}

\* The detail maps of a lookup: Name and Namespace, and each optional key
\* absent, empty or set.
DetailInputs ==
    UNION {{[k \in {"Name", "Namespace"} \cup keys |->
                CASE k = "Name" -> "db-0" [] k = "Namespace" -> "prod" [] OTHER -> f[k]] :
            f \in [keys -> {"", "1"}]} : keys \in SUBSET OptionalKeys}

DetailCalls ==
    {[fn |-> "initPodDefTable", details |-> d, isNil |-> FALSE] : d \in DetailInputs}
    \cup {[fn |-> "initPodDefTable", details |-> <<>>, isNil |-> TRUE]}

HelperInit ==
    /\ call \in TruncateCalls \cup GenerateNameCalls \cup RenderNameCalls \cup DetailCalls
    /\ ret = NoReturn
    /\ startTUI

ApplyTruncateString ==
    /\ call.fn = "truncateString"
    /\ ~ret.done
    /\ ret' = IF truncateStringFaults(call.s, call.maxLen) THEN Faulted
              ELSE Returned(truncateString(call.s, call.maxLen))
    /\ UNCHANGED <<view, panicked, inflight, requests, lastMsg, cmds, call>>

ApplyGenerateDeploymentName ==
    /\ call.fn = "createNewDeployment"
    /\ ~ret.done
    /\ ret' = Returned(GenerateDeploymentName(call.imageName))
    /\ UNCHANGED <<view, panicked, inflight, requests, lastMsg, cmds, call>>

\* renderModal in CreateConfirm computing the name it shows.
ApplyRenderModalDeploymentName ==
    /\ call.fn = "renderModal"
    /\ ~ret.done
    /\ ret' = Returned(renderModalDeploymentName(call.imageName))
    /\ UNCHANGED <<view, panicked, inflight, requests, lastMsg, cmds, call>>

\* initPodDefTable building the detail table, in one of the orders the map
\* can be ranged over.
ApplyInitPodDefTable ==
    /\ call.fn = "initPodDefTable"
    /\ ~ret.done
    /\ \E t \in initPodDefTable(call.details, call.isNil) : ret' = Returned(t)
    /\ UNCHANGED <<view, panicked, inflight, requests, lastMsg, cmds, call>>

HelperNext ==
    \/ ApplyTruncateString \/ ApplyGenerateDeploymentName
    \/ ApplyRenderModalDeploymentName \/ ApplyInitPodDefTable

HelperSpec == HelperInit /\ [][HelperNext]_vars

----------------------------------------------------------------------------
(* Properties.  A step is identified by the message Update has just        *)
(* processed (lastMsg') and what it returned (cmds').                      *)

Normal == ~showModal /\ ~showPodDef

QuitKeys == {KeyMsg("q"), KeyMsg("ctrl+c")}

\* C1, as stated: quitting is set, and the quit command issued, only by a
\* step taken from Normal (modal closed and detail view closed).
C1_QuitOnlyFromNormal ==
    [][(quitting' /\ ~quitting) \/ cmds' = <<QuitCmd>> => Normal]_vars

\* C1, amended: 'q' and 'ctrl+c' set quitting and issue the quit command in
\* every state, also with the modal or the detail view open; Esc quits
\* exactly when it is pressed in Normal; nothing else quits.
C1_QuitKeysQuitAnywhere ==
    [][/\ lastMsg' \in QuitKeys => quitting' /\ cmds' = <<QuitCmd>>
       /\ lastMsg' = KeyMsg("esc") =>
             /\ quitting' <=> Normal
             /\ cmds' = <<QuitCmd>> <=> Normal
       /\ quitting' \/ cmds' = <<QuitCmd>> =>
             lastMsg' \in QuitKeys \cup {KeyMsg("esc")}]_vars

\* C1 witness: 'q' has quit the program while the modal was open.
C1_QuitWithModalOpen ==
    quitting /\ lastMsg = KeyMsg("q") /\ showModal /\ cmds = <<QuitCmd>>

\* C2, as stated: key '1' in UpdateConfirm always closes the modal and issues
\* exactly one UpdateWorkload with the captured image and the name and
\* namespace of the highlighted candidate.
C2_CommitAlwaysIssuesUpdate ==
    [][lastMsg' = KeyMsg("1") /\ showModal /\ modalStep = 2 =>
          /\ ~showModal'
          /\ Len(cmds') = 1
          /\ cmds'[1].kind = "UpdateWorkload"
          /\ cmds'[1].image = selectedImage
          /\ selectedDeployment + 1 \in DOMAIN deployments
          /\ cmds'[1].name = deployments[selectedDeployment + 1].PodName
          /\ cmds'[1].namespace = deployments[selectedDeployment + 1].Namespace]_vars

\* C3: key '1' in CreateConfirm closes the modal, resets the step and issues
\* exactly one CreateWorkload with the captured image, the name generated
\* from it and the namespace "default"; the captured image is the reference
\* of the row selected at the last Enter that opened the wizard.
C3_CommitCreate ==
    [][/\ lastMsg' = KeyMsg("1") /\ showModal /\ modalStep = 1 =>
             /\ ~showModal'
             /\ modalStep' = 0
             /\ cmds' = <<CreateWorkloadCmd(selectedImage,
                                            GenerateDeploymentName(selectedImage),
                                            "default")>>
       /\ selectedImage' # selectedImage =>
             /\ lastMsg' = KeyMsg("enter")
             /\ table.cursor + 1 \in DOMAIN dockerData
             /\ selectedImage' = ImageReference(dockerData[table.cursor + 1])]_vars

\* C3 witness: a CreateWorkload has just been issued by key '1'.
C3_CreateIssued ==
    /\ lastMsg = KeyMsg("1")
    /\ ~showModal
    /\ Len(cmds) = 1
    /\ cmds[1].kind = "CreateWorkload"
    /\ cmds[1].image = selectedImage

\* C4: with the modal staying open, step 0 leads to step 1 exactly by key '1'
\* on the 'create new' sentinel and to step 2 exactly by key '1' on another
\* candidate; key '2' leads from step 1 or 2 to step 0; no step leads from 1
\* to 2 or from 2 to 1.
C4_StepsNeverSkip ==
    [][showModal /\ showModal' =>
          /\ modalStep = 0 /\ lastMsg' = KeyMsg("1") =>
                modalStep' = IF selectedDeployment = -1 THEN 1 ELSE 2
          /\ modalStep = 0 /\ modalStep' # 0 => lastMsg' = KeyMsg("1")
          /\ modalStep \in {1, 2} /\ lastMsg' = KeyMsg("2") => modalStep' = 0
          /\ ~(modalStep = 1 /\ modalStep' = 2)
          /\ ~(modalStep = 2 /\ modalStep' = 1)]_vars

\* C4 witness: Back has returned the wizard from UpdateConfirm's candidate
\* to SelectTarget.
C4_BackToSelectTarget ==
    showModal /\ modalStep = 0 /\ lastMsg = KeyMsg("2") /\ selectedDeployment >= 0

\* C5, as stated: Enter in Normal on the Images tab with a row selected opens
\* the wizard on that row and issues one ListWorkloads; Enter in any other
\* state leaves the wizard as it is.
C5_EnterOpensOnlyFromNormal ==
    [][lastMsg' = KeyMsg("enter") =>
          IF Normal /\ activeTab = 1 /\ table.cursor + 1 \in DOMAIN dockerData
          THEN /\ showModal'
               /\ modalStep' = 0
               /\ selectedDeployment' = -1
               /\ selectedImage' = ImageReference(dockerData[table.cursor + 1])
               /\ cmds' = <<ListWorkloadsCmd>>
          ELSE UNCHANGED <<showModal, modalStep, selectedDeployment, selectedImage>>]_vars

NameAppV1 == "localhost-5000-app-v1"
NoDeploymentsFound == DeploymentRow("No deployments found", "default", "N/A", "")

\* C6, as stated: with "localhost:5000/app:v1" captured and no workload in
\* the cluster the wizard holds no candidate but the sentinel, and key '1'
\* in CreateConfirm dispatches CreateWorkload with the name "app-v1".
C6_ScenarioNameAppV1 ==
    [][/\ lastMsg'.type = "deploymentsMsg" =>
             \A d \in DOMAIN deployments' :
                 deployments'[d].PodName \in {w.PodName : w \in Range(AllDeployments)}
       /\ lastMsg' = KeyMsg("1") /\ showModal /\ modalStep = 1
          /\ selectedImage = ImageAppV1.ImageTag =>
             cmds' = <<CreateWorkloadCmd(ImageAppV1.ImageTag, "app-v1", "default")>>]_vars

\* C6, amended: with "localhost:5000/app:v1" captured, a listing of a cluster
\* without deployments delivers the one placeholder entry "No deployments
\* found", so the wizard holds the sentinel, selected by default, and that
\* placeholder; key '1' on the sentinel advances to CreateConfirm, which shows
\* the name "localhost-5000-app-v1"; key '1' again dispatches
\* CreateWorkload("localhost:5000/app:v1", "localhost-5000-app-v1", "default").
C6_ScenarioGeneratedName ==
    [][selectedImage = ImageAppV1.ImageTag /\ showModal =>
          /\ lastMsg'.type = "deploymentsMsg" =>
                /\ deployments' = lastMsg'.deployments
                /\ \A env \in ClusterEnvs :
                      env.kubeconfig /\ env.listOk /\ env.items = <<>> =>
                          getKubernetesDeployments(env) = <<NoDeploymentsFound>>
                /\ deployments' # <<>> \/ lastMsg'.deployments = <<>>
                /\ UNCHANGED selectedDeployment
          /\ lastMsg' = KeyMsg("1") /\ modalStep = 0 /\ selectedDeployment = -1 =>
                /\ modalStep' = 1
                /\ showModal'
                /\ renderModalDeploymentName(selectedImage') = NameAppV1
          /\ lastMsg' = KeyMsg("1") /\ modalStep = 1 =>
                cmds' = <<CreateWorkloadCmd(ImageAppV1.ImageTag, NameAppV1, "default")>>]_vars

\* C6 witness: the scenario has run to its end; the placeholder was listed and
\* the create command carries the generated name.
C6_ScenarioDispatched ==
    /\ lastMsg = KeyMsg("1")
    /\ deployments = <<NoDeploymentsFound>>
    /\ selectedDeployment = -1
    /\ cmds = <<CreateWorkloadCmd(ImageAppV1.ImageTag, NameAppV1, "default")>>

\* C7, as stated: a successful deployment completion is followed by a reload
\* of the image rows.
C7_SuccessRefreshesImages ==
    [][lastMsg' = deploymentMsg(TRUE) => RefreshImagesCmd \in Range(cmds')]_vars

\* C7, amended: a successful deployment completion is followed by a reload of
\* the candidate workloads (ListWorkloads); no reload of the image rows is
\* issued and the image rows stay as they are.
C7_SuccessReloadsWorkloads ==
    [][lastMsg' = deploymentMsg(TRUE) =>
          /\ ListWorkloadsCmd \in Range(cmds')
          /\ RefreshImagesCmd \notin Range(cmds')
          /\ UNCHANGED dockerData]_vars

\* C7 witness: a successful completion has been processed in Normal and the
\* workloads are being reloaded.
C7_WorkloadsReloading ==
    /\ lastMsg = deploymentMsg(TRUE)
    /\ Normal
    /\ cmds = <<ListWorkloadsCmd>>
    /\ [kind |-> "ListWorkloads"] \in BagToSet(inflight)

\* C8: a successful deployment completion, in whatever state it is processed,
\* puts the cursor of the main table on the first row and issues exactly one
\* ListWorkloads; nothing else of the view changes.
C8_SuccessResetsCursor ==
    [][lastMsg' = deploymentMsg(TRUE) =>
          /\ table'.cursor = 0
          /\ table' = [table EXCEPT !.cursor = 0]
          /\ Len(cmds') = 1
          /\ cmds'[1] = ListWorkloadsCmd
          /\ UNCHANGED <<quitting, activeTab, dataVars, sizeVars, modalVars, podVars>>]_vars

\* C8 witness: a successful completion has been processed after the user
\* went to the Commits tab, and the cursor of its table is on the first row.
C8_ResetOnOtherTab ==
    /\ lastMsg = deploymentMsg(TRUE)
    /\ activeTab = 0
    /\ table.cursor = 0
    /\ Len(table.rows) = Len(gitData)
    /\ Len(cmds) = 1

\* C9: a failed deployment completion leaves the whole view state unchanged,
\* issues no command and does not open the modal.
C9_FailureChangesNothing ==
    [][lastMsg' = deploymentMsg(FALSE) =>
          /\ UNCHANGED view
          /\ cmds' = <<>>
          /\ showModal' => showModal]_vars

\* C9 witness: a failed completion has been processed with the modal closed.
C9_FailureProcessed ==
    lastMsg = deploymentMsg(FALSE) /\ ~showModal /\ cmds = <<>>

\* C10: a Delete or Pull completion issues RefreshImages exactly when it
\* reports success and issues nothing otherwise; either way the image rows
\* and the rest of the view state are unchanged; RefreshImages is issued by
\* nothing but a successful Delete or Pull completion.
C10_RefreshIffSuccess ==
    [][/\ lastMsg'.type \in {"dockerDeleteMsg", "dockerPullMsg"} =>
             /\ UNCHANGED view
             /\ cmds' = IF lastMsg'.success THEN <<RefreshImagesCmd>> ELSE <<>>
       /\ RefreshImagesCmd \in Range(cmds') =>
             /\ lastMsg'.type \in {"dockerDeleteMsg", "dockerPullMsg"}
             /\ lastMsg'.success]_vars

\* C10 witness: a failed Pull has been processed on the Images tab and no
\* command was issued.
C10_FailedPullProcessed ==
    lastMsg = dockerPullMsg(FALSE) /\ activeTab = 1 /\ cmds = <<>>

\* C11, as stated: a Delete or Pull command is issued only by Ctrl+D or
\* Ctrl+P pressed in Normal on the Images tab, for the selected row, and the
\* step changes no view state.
C11_DeletePullOnlyFromNormal ==
    [][Len(cmds') = 1 /\ cmds'[1].kind \in {"Delete", "Pull"} =>
          /\ Normal
          /\ activeTab = 1
          /\ lastMsg' \in {KeyMsg("ctrl+d"), KeyMsg("ctrl+p")}
          /\ table.cursor + 1 \in DOMAIN dockerData
          /\ cmds'[1] \in {DeleteCmd(dockerData[table.cursor + 1].ImageID),
                           PullCmd(dockerData[table.cursor + 1].ImageTag)}
          /\ UNCHANGED view]_vars

\* C12: the image rows change only when a refresh completion is processed
\* and are then exactly its payload; processing the same completion once
\* more would change nothing; and whenever the Images tab is active the rows
\* of the main table are the projection of the image rows.
C12_LastRefreshWins ==
    [][/\ dockerData' # dockerData => lastMsg'.type = "dockerRefreshMsg"
       /\ lastMsg'.type = "dockerRefreshMsg" =>
             /\ dockerData' = lastMsg'.data
             /\ table' = IF activeTab' = 1
                         THEN updateTableForTab(table', activeTab', gitData',
                                                lastMsg'.data, kubesData')
                         ELSE table'
             /\ UNCHANGED <<quitting, activeTab, gitData, kubesData, sizeVars,
                            modalVars, podVars>>
       /\ activeTab' = 1 => table'.rows = MapRows(DockerTableRow, dockerData')]_vars

\* C12 witness: a refresh completion with fewer rows than the startup
\* snapshot has been processed on the Images tab and the table shows it.
C12_ShorterRefreshShown ==
    /\ lastMsg.type = "dockerRefreshMsg"
    /\ activeTab = 1
    /\ Len(dockerData) < MaxImages
    /\ dockerData = lastMsg.data
    /\ Len(table.rows) = Len(dockerData)

ErrorRows == << <<"Error", "Failed to load pod details">> >>

\* C13, as stated: Enter in Normal on the Workloads tab with a row selected
\* captures the row's name and namespace and issues one Detail command, the
\* controller stays in Normal, and the detail view becomes visible only when
\* a Detail completion is processed.
C13_DetailViewAfterCompletion ==
    [][/\ lastMsg' = KeyMsg("enter") /\ Normal /\ activeTab = 2
          /\ table.cursor + 1 \in DOMAIN kubesData =>
             /\ selectedPod' = kubesData[table.cursor + 1].PodName
             /\ selectedPodNS' = kubesData[table.cursor + 1].Namespace
             /\ cmds' = <<DetailCmd(selectedPod', selectedPodNS')>>
             /\ Normal'
       /\ showPodDef' /\ ~showPodDef => lastMsg'.type = "podDetailsMsg"]_vars

\* C14, as stated: whenever the detail view is visible, and after every
\* Detail completion, the detail table holds at least one row.
C14_DetailViewNeverEmpty ==
    showPodDef \/ lastMsg.type = "podDetailsMsg" => Len(podDefTable.rows) >= 1

\* C15: a Detail completion that carries an error leaves the detail table
\* with exactly one row, the explicit error row, whatever rows it held.
C15_ErrorRowOnFailure ==
    lastMsg.type = "podDetailsMsg" /\ lastMsg.err =>
        /\ podDefTable.rows = ErrorRows
        /\ Len(podDefTable.rows) = 1
        /\ podDefTable.cols = PodDefColumns
        /\ cmds = <<>>

\* C15 witness: a failed Detail completion has been processed with the detail
\* view open and the table holds the error row.
C15_ErrorRowShown ==
    /\ lastMsg.type = "podDetailsMsg"
    /\ lastMsg.err
    /\ showPodDef
    /\ podDefTable.rows = ErrorRows

\* C16, as stated: Esc in the detail view returns to Normal and leaves the
\* detail table without rows, so the view never opens on rows fetched for
\* another workload.
C16_EscDiscardsDetailRows ==
    [][/\ lastMsg' = KeyMsg("esc") /\ showPodDef /\ ~showModal =>
             /\ Normal'
             /\ podDefTable'.rows = <<>>
       /\ showPodDef' /\ ~showPodDef => podDefTable'.rows = <<>>]_vars

C18_CancelIssuesNothing ==
    [][showModal /\ (lastMsg' = KeyMsg("esc")
                     \/ (lastMsg' = KeyMsg("2") /\ modalStep = 0)) =>
          /\ ~showModal'
          /\ modalStep' = 0
          /\ cmds' = <<>>
          /\ ~quitting']_vars

\* C18 witness: Esc has closed the modal (the detail view was never opened,
\* and the program did not quit) without a command.
C18_EscCancelled ==
    /\ lastMsg = KeyMsg("esc")
    /\ ~quitting
    /\ selectedPod = ""
    /\ selectedImage # ""
    /\ ~showModal
    /\ modalStep = 0
    /\ cmds = <<>>

\* C19, as stated: with the modal or the detail view open no key changes
\* the active tab.
C19_TabChangesOnlyInNormal ==
    [][activeTab' # activeTab => Normal]_vars

\* The columns of each tab.
TabColumns(tab) ==
    CASE tab = 0 -> GitColumns [] tab = 1 -> DockerColumns [] OTHER -> KubeColumns

\* C20: in Normal keys '1', '2', '3' select tabs 0, 1, 2 and 'tab' selects
\* the next tab modulo 3, all without a command; the active tab is always
\* one of the three and the main table always has its columns.
C20_LastTabSelectWins ==
    [][/\ Normal /\ lastMsg' = KeyMsg("1") => activeTab' = 0 /\ cmds' = <<>>
       /\ Normal /\ lastMsg' = KeyMsg("2") => activeTab' = 1 /\ cmds' = <<>>
       /\ Normal /\ lastMsg' = KeyMsg("3") => activeTab' = 2 /\ cmds' = <<>>
       /\ Normal /\ lastMsg' = KeyMsg("tab") =>
             activeTab' = (activeTab + 1) % 3 /\ cmds' = <<>>
       /\ activeTab' \in {0, 1, 2}
       /\ table'.cols = TabColumns(activeTab')]_vars

\* C20 witness: the 'tab' key has wrapped from the Workloads tab to the
\* Commits tab in Normal.
C20_TabWrapped ==
    /\ lastMsg = KeyMsg("tab")
    /\ Normal
    /\ activeTab = 0
    /\ table.cols = GitColumns
    /\ cmds = <<>>

\* C21: with exactly one of the modal and the detail view open, one Esc
\* leads to Normal without quitting and without a command; an Esc that
\* quits was pressed in Normal.
C21_OneEscToNormal ==
    [][lastMsg' = KeyMsg("esc") =>
          /\ showModal # showPodDef =>
                /\ Normal'
                /\ ~quitting'
                /\ cmds' = <<>>
          /\ quitting' => Normal]_vars

\* C21 witness: Esc has closed the detail view (the wizard was never opened
\* and the program did not quit) and the controller is in Normal.
C21_EscClosedDetailView ==
    /\ lastMsg = KeyMsg("esc")
    /\ Normal
    /\ ~quitting
    /\ selectedPod # ""
    /\ selectedImage = ""
    /\ cmds = <<>>

C23_DetailRowsDeterministic ==
    (call.fn = "initPodDefTable" /\ ret.done) =>
        \A t \in initPodDefTable(call.details, call.isNil) : t = ret.value

\* C25, as stated: for every string and every width truncation returns
\* without a fault, returns a string no longer than the width, returns the
\* string itself when it fits and its first width-3 characters followed by
\* "..." when it does not, and truncating the result again changes nothing.
C25_TruncateTotalIdempotentBounded ==
    call.fn = "truncateString" /\ ret.done =>
        /\ ~ret.fault
        /\ Len(ret.value) <= call.maxLen
        /\ Len(call.s) <= call.maxLen => ret.value = call.s
        /\ Len(call.s) > call.maxLen =>
              ret.value = SubSeq(call.s, 1, call.maxLen - 3) \o "..."
        /\ ~truncateStringFaults(ret.value, call.maxLen)
        /\ truncateString(ret.value, call.maxLen) = ret.value

NameSeparators == {":", "/", "_", "."}

\* The image reference in lower case with the separators replaced by "-"
\* and the "-" at both ends removed.
NameCore(imageName) ==
    LET lowered == ToLower(imageName)
        dashed == [i \in 1..Len(lowered) |->
                      IF CharAt(lowered, i) \in NameSeparators THEN "-"
                      ELSE CharAt(lowered, i)]
        first == {i \in 1..Len(lowered) : dashed[i] # "-"}
        lo == CHOOSE i \in first : \A j \in first : i <= j
        hi == CHOOSE i \in first : \A j \in first : j <= i
    IN  IF first = {} THEN "" ELSE ReplaceAll(ReplaceAll(ReplaceAll(ReplaceAll(
            SubSeq(lowered, lo, hi), ":", "-"), "/", "-"), "_", "-"), ".", "-")

\* C26: the generated name is the core of the image reference (lower case,
\* ':', '/', '_', '.' replaced by '-', '-' trimmed at both ends), or
\* "new-deployment" when the core is empty or "latest", with "app-" put in
\* front when it does not start with a lowercase letter; it is never empty
\* and always starts with a lowercase letter.
C26_GeneratedName ==
    call.fn = "createNewDeployment" /\ ret.done =>
        LET core == NameCore(call.imageName)
            named == IF core \in {"", "latest"} THEN "new-deployment" ELSE core
        IN  /\ ~ret.fault
            /\ ret.value = IF IsLowerLetter(CharAt(named, 1)) THEN named
                           ELSE "app-" \o named
            /\ ret.value # ""
            /\ IsLowerLetter(CharAt(ret.value, 1))
            /\ \A i \in 1..Len(ret.value) :
                  CharAt(ret.value, i) \notin NameSeparators

\* C26 witness: a reference that starts with a digit after trimming has got
\* the prefix "app-".
C26_PrefixedName ==
    /\ call = [fn |-> "createNewDeployment", imageName |-> "_1."]
    /\ ret.done
    /\ ret.value = "app-1"

\* C27: whenever a tab is active and its row collection is empty, the
\* displayed table holds at least one row, and that row is not blank.
TabData(tab) ==
    CASE tab = 0 -> gitData
      [] tab = 1 -> dockerData
      [] OTHER -> kubesData

IsSentinelRow(row) == \E i \in 1..Len(row) : row[i] # ""

C27_EmptyTabShowsSentinel ==
    (activeTab \in 0..2 /\ TabData(activeTab) = <<>>) =>
        /\ Len(table.rows) > 0
        /\ \A i \in 1..Len(table.rows) : IsSentinelRow(table.rows[i])

\* C28: no step changes the commit rows or the workload rows; of the three
\* row collections only the image rows are ever replaced, and a successful
\* deployment replaces none of them.
C28_CommitsAndWorkloadsFixed ==
    [][/\ gitData' = gitData
       /\ kubesData' = kubesData
       /\ (lastMsg'.type = "deploymentMsg" => dockerData' = dockerData)]_vars

\* A deployment succeeded, and the commit rows and the workload rows are the
\* ones the program started with.
C28_DeployedWorkloadsKept ==
    /\ lastMsg.type = "deploymentMsg"
    /\ lastMsg.success
    /\ gitData = <<Commit1, Commit2>>
    /\ kubesData = <<PodWeb, PodDb>>

\* C29: the detail table lists the keys of the fixed sequence first and in
\* that order, then the remaining keys; no key with an empty value is listed
\* and every key with a non-empty value is listed exactly once.
KeyIndex(key) == CHOOSE i \in 1..Len(orderedKeys) : orderedKeys[i] = key

DetailProjection(rows, details) ==
    /\ \A i \in 1..Len(rows) :
          /\ rows[i][1] \in DOMAIN details
          /\ details[rows[i][1]] # ""
    /\ \A k \in DOMAIN details :
          details[k] # "" => Cardinality({i \in 1..Len(rows) : rows[i][1] = k}) = 1
    /\ \A i, j \in 1..Len(rows) :
          (i < j /\ rows[j][1] \in Range(orderedKeys)) =>
              /\ rows[i][1] \in Range(orderedKeys)
              /\ KeyIndex(rows[i][1]) < KeyIndex(rows[j][1])

C29_DetailProjectionOrder ==
    (call.fn = "initPodDefTable" /\ ret.done /\ ~call.isNil) =>
        DetailProjection(ret.value.rows, call.details)

\* The table was built from details with an empty value, keys of the fixed
\* sequence and two keys outside it.
C29_DetailsProjected ==
    /\ call.fn = "initPodDefTable"
    /\ ~call.isNil
    /\ ret.done
    /\ \E k \in DOMAIN call.details : call.details[k] = ""
    /\ Len(ret.value.rows) = 5
    /\ ret.value.rows[3][1] = "Status"
    /\ ret.value.rows[4][1] = "Image"
    /\ ret.value.rows[5][1] = "Restarts"

\* C30: Update never faults: no index expression is read out of range.
C30_UpdateNeverFaults == ~panicked

\* C24: while the program runs, every command in flight ends with exactly one
\* completion message: a command leaves the runtime only in the step that
\* processes a message it can return, one command per message, and as long
\* as the program has neither quit nor faulted it does leave it.
CompletionTypes ==
    {"deploymentsMsg", "podDetailsMsg", "dockerDeleteMsg", "dockerPullMsg",
     "deploymentMsg", "dockerRefreshMsg"}

Stopped == quitting \/ panicked

OneCompletionPerCommand ==
    IF lastMsg'.type \in CompletionTypes
    THEN \E c \in BagToSet(inflight) :
            /\ lastMsg' \in Completions(c)
            /\ inflight' = (inflight (-) SetToBag({c})) (+) Started(cmds')
    ELSE inflight' = inflight (+) Started(cmds')

C31_EnterSelectsCandidate ==
    [][(lastMsg' = KeyMsg("enter") /\ showModal /\ modalStep = 0) =>
          /\ showModal'
          /\ modalStep' = IF selectedDeployment = -1 THEN 1 ELSE 2
          /\ selectedDeployment' = selectedDeployment
          /\ cmds' = <<>>]_vars

\* C32: with the modal open the highlighted candidate is the sentinel or an
\* entry of the candidate list.
C32_CandidateInList ==
    showModal => (-1 <= selectedDeployment /\ selectedDeployment <= Len(deployments) - 1)

\* C33: the modal and the detail view are never open together.
C33_OneViewOpen == ~(showModal /\ showPodDef)

\* C34: the rows of a visible detail view that came from a successful Detail
\* completion are those of the captured workload.
C34_DetailRowsOfSelectedPod ==
    (showPodDef /\ podDefTable.rows # <<>> /\ podDefTable.rows[1][1] = "Name") =>
        /\ podDefTable.rows[1] = <<"Name", truncateString(selectedPod, 70)>>
        /\ podDefTable.rows[2] = <<"Namespace", truncateString(selectedPodNS, 70)>>

\* C35: the target of every UpdateWorkload that is issued is a workload of
\* the cluster, never a placeholder entry of the candidate list.
C35_UpdateTargetsWorkload ==
    \A i \in DOMAIN cmds :
        cmds[i].kind = "UpdateWorkload" =>
            cmds[i].name \in {w.PodName : w \in Range(AllDeployments)}

\* C36: every CreateWorkload and UpdateWorkload carries the captured image;
\* the captured image changes only at an Enter that opens the wizard, which
\* sets it to the reference of the row under the cursor; cursor movement and
\* image refreshes while the modal is open leave it alone.
C36_DeploysCapturedImage ==
    [][/\ \A i \in DOMAIN cmds' :
             cmds'[i].kind \in {"CreateWorkload", "UpdateWorkload"} =>
                 /\ cmds'[i].image = selectedImage
                 /\ selectedImage' = selectedImage
       /\ (showModal /\ lastMsg' # KeyMsg("enter")) => selectedImage' = selectedImage
       /\ (lastMsg' = KeyMsg("enter") /\ showModal'
             /\ (~showModal \/ selectedImage' # selectedImage)) =>
             /\ table.cursor + 1 \in DOMAIN dockerData
             /\ selectedImage' = ImageReference(dockerData[table.cursor + 1])]_vars

\* A CreateWorkload was issued with the captured image after the cursor of
\* the main table had moved to another row.
C36_DeployedAfterCursorMoved ==
    /\ lastMsg = KeyMsg("1")
    /\ Len(cmds) = 1
    /\ cmds[1].kind = "CreateWorkload"
    /\ cmds[1].image = selectedImage
    /\ table.cursor + 1 \in DOMAIN dockerData
    /\ ImageReference(dockerData[table.cursor + 1]) # selectedImage

\* C37: processing a completion message, succeeded or failed, leaves
\* showModal, modalStep, showPodDef, activeTab, selectedImage and
\* selectedDeployment as they are.
C37_CompletionsKeepView ==
    [][lastMsg'.type \in CompletionTypes =>
          UNCHANGED <<showModal, modalStep, showPodDef, activeTab, selectedImage,
                      selectedDeployment>>]_vars

\* A Detail completion was processed after Esc had closed the detail view.
C37_DetailArrivedAfterEsc ==
    /\ lastMsg.type = "podDetailsMsg"
    /\ ~showPodDef
    /\ ~showModal
    /\ podDefTable.rows # <<>>

\* C38: modalStep is 0, 1 or 2; it is 0 when the modal is closed; step 1 goes
\* with the sentinel and step 2 with a candidate of the list; the highlighted
\* candidate changes only by Up/Down in SelectTarget, by one, or when Enter
\* opens the wizard.
C38_StepAndCandidate ==
    /\ [](/\ modalStep \in 0..2
          /\ ~showModal => modalStep = 0
          /\ modalStep = 1 => selectedDeployment = -1
          /\ modalStep = 2 => selectedDeployment >= 0)
    /\ [][selectedDeployment' # selectedDeployment =>
             \/ /\ showModal /\ modalStep = 0
                /\ lastMsg' \in {KeyMsg("up"), KeyMsg("down")}
                /\ selectedDeployment' \in {selectedDeployment - 1, selectedDeployment + 1}
             \/ /\ lastMsg' = KeyMsg("enter")
                /\ showModal'
                /\ selectedDeployment' = -1]_vars

\* The wizard is in UpdateConfirm on a candidate reached by Down.
C38_InUpdateConfirm ==
    /\ showModal
    /\ modalStep = 2
    /\ selectedDeployment = 0
    /\ lastMsg = KeyMsg("1")

\* C40: for every captured image reference the name the CreateConfirm step
\* shows is the name the create command computes.
C40_ShownNameIsCreatedName ==
    (call.fn = "renderModal" /\ ret.done) =>
        /\ ~ret.fault
        /\ ret.value = GenerateDeploymentName(call.imageName)

\* The renderer computed the name of a reference with a registry host, upper
\* case, an underscore and a dot.
C40_RenderedRegistryName ==
    /\ call.fn = "renderModal"
    /\ call.imageName = "localhost:5000/My_App:V1.2"
    /\ ret.done
    /\ ret.value = "localhost-5000-my-app-v1-2"

\* C39: a key issues at most one command; a completion issues one follow-up
\* exactly when a Delete or Pull succeeded (RefreshImages) or a deployment
\* succeeded (ListWorkloads) and none otherwise, a failed RefreshImages
\* included; with completions processed fairly the program comes to stay
\* without a command in flight, unless it has ended first.
FollowUp(msg) ==
    IF msg.type \in {"dockerDeleteMsg", "dockerPullMsg"} /\ msg.success
    THEN <<RefreshImagesCmd>>
    ELSE IF msg.type = "deploymentMsg" /\ msg.success
    THEN <<ListWorkloadsCmd>>
    ELSE <<>>

C39_ChainsEnd ==
    /\ [][/\ Len(cmds') <= 1
          /\ lastMsg'.type \in CompletionTypes => cmds' = FollowUp(lastMsg')]_vars
    /\ <>[](inflight = EmptyBag \/ Stopped)

\* A chain has run to its end: the refresh that followed a Delete or Pull
\* was processed and nothing is in flight.
C39_ChainEnded ==
    /\ lastMsg.type = "dockerRefreshMsg"
    /\ cmds = <<>>
    /\ inflight = EmptyBag
    /\ ~Stopped

====
